---- MODULE Spec2Model ----
(***************************************************************************)
(* Model of nntrainer's NetworkGraph (nntrainer/graph/network_graph.cpp):  *)
(* the realization of a flat layer list into a graph (setGraphNode), the   *)
(* edge resolver (setEdge), the topological sorter and the in-place        *)
(* optimizer.                                                              *)
(*                                                                         *)
(* A std::string is a sequence of one-character strings, so that           *)
(* concatenation (prefix + name + counter) and the case-insensitive        *)
(* comparison istrequal are computed, not assumed.  A shared_ptr<Layer> is *)
(* an index into the sequence objs of Layer records: the flat list, the    *)
(* graph nodes and the sorted nodes all point to the same Layer objects.   *)
(***************************************************************************)
EXTENDS Integers, Sequences, FiniteSets, TLC

VARIABLES
  objs,                      \* the Layer objects, by shared_ptr identity
  layers,                    \* the flat layer list handed to setGraphNode
  loss_type,                 \* the loss kind handed to setGraphNode
  adj,                       \* NetworkGraph::adj, a list of LayerNode per node
  num_node,                  \* NetworkGraph::num_node
  def_name_count,            \* NetworkGraph::def_name_count
  layer_names,               \* NetworkGraph::layer_names
  Sorted,                    \* NetworkGraph::Sorted
  skip_non_trainable_layers, \* NetworkGraph::skip_non_trainable_layers
  in_place,                  \* the (node, predecessor, slot) aliasings applied
  untracked,                 \* the names passed to Manager::untrackLayerInOuts
  pc,                        \* the position in the pipeline
  li,                        \* the loop index i of setGraphNode (1-based)
  status,                    \* the status code or the exception that ended the pipeline
  removed,                   \* the LayerNodes addLossLayer popped from adj
  call,                      \* the arguments of the single call under study
  forwarded,                 \* the layers whose forwarding was invoked, in order
  out,                       \* the tensors NetworkGraph::forwarding returned
  net_input,                 \* Layer::net_input of every Layer: Var_Grad handles
  net_hidden,                \* Layer::net_hidden of every Layer: Var_Grad handles
  var_grads                  \* the Var_Grad objects: their var and grad tensors

vars == <<objs, layers, loss_type, adj, num_node, def_name_count, layer_names,
          Sorted, skip_non_trainable_layers, in_place, untracked, pc, li,
          status, removed, call, forwarded, out, net_input, net_hidden,
          var_grads>>

(***************************************************************************)
(* Bounds of the model.                                                    *)
(***************************************************************************)
MaxLayers == 3

(***************************************************************************)
(* Strings.                                                                *)
(***************************************************************************)
UpperCase == <<"A","B","C","D","E","F","G","H","I","J","K","L","M",
               "N","O","P","Q","R","S","T","U","V","W","X","Y","Z">>
LowerCase == <<"a","b","c","d","e","f","g","h","i","j","k","l","m",
               "n","o","p","q","r","s","t","u","v","w","x","y","z">>
Digits == <<"0","1","2","3","4","5","6","7","8","9">>

\* the lower-case letter of every upper-case letter
LowerOf ==
  [c \in {UpperCase[k] : k \in 1..Len(UpperCase)} |->
     LowerCase[CHOOSE k \in 1..Len(UpperCase) : UpperCase[k] = c]]

\* tolower of the C library, on the characters of a name
tolower(c) == IF c \in DOMAIN LowerOf THEN LowerOf[c] ELSE c

\* parse_util's istrequal: equal length and equal character by character
\* after tolower
istrequal(a, b) ==
  /\ Len(a) = Len(b)
  /\ \A k \in 1..Len(a) : tolower(a[k]) = tolower(b[k])

\* std::to_string of a non-negative int
RECURSIVE to_string(_)
to_string(k) ==
  IF k < 10 THEN <<Digits[k + 1]>>
  ELSE to_string(k \div 10) \o <<Digits[(k % 10) + 1]>>

\* the type tags (Layer::getType()) as std::string
TypeString(t) ==
  CASE t = "activation" -> <<"a","c","t","i","v","a","t","i","o","n">>
    [] t = "addition" -> <<"a","d","d","i","t","i","o","n">>
    [] t = "batch_normalization" ->
         <<"b","a","t","c","h","_","n","o","r","m","a","l","i","z","a","t","i","o","n">>
    [] t = "concat" -> <<"c","o","n","c","a","t">>
    [] t = "conv2d" -> <<"c","o","n","v","2","d">>
    [] t = "flatten" -> <<"f","l","a","t","t","e","n">>
    [] t = "input" -> <<"i","n","p","u","t">>
    [] t = "loss" -> <<"l","o","s","s">>
    [] t = "output" -> <<"o","u","t","p","u","t">>

DATA == <<"_","_","d","a","t","a","_","_">>
EXIT == <<"_","_","e","x","i","t","_","_">>

(***************************************************************************)
(* Status codes and exceptions.                                            *)
(***************************************************************************)
ML_ERROR_NONE == "ML_ERROR_NONE"
ML_ERROR_INVALID_PARAMETER == "ML_ERROR_INVALID_PARAMETER"
ML_ERROR_NOT_SUPPORTED == "ML_ERROR_NOT_SUPPORTED"
EX_UNCONNECTED == "invalid_argument: There is un-connected node"
EX_INPUT_DIM == "invalid_argument: Input Dimension must be set"
EX_CANNOT_FIND == "invalid_argument: Cannot find Layer"
EX_EXCEED == "invalid_argument: Exceed total number of layer"
EX_INTERNAL == "runtime_error: Internal error in the formed graph"
EX_NOT_IN_PLACE == "runtime_error: layer is not supported for in-place optimization"

\* in_place_layers
in_place_layers == <<"activation", "batch_normalization">>

(***************************************************************************)
(* Layer objects.                                                          *)
(***************************************************************************)
\* a layer as the layer factory makes it: no name, no connections, one input
\* and one output slot, input dimension not set
createLayer(type) ==
  [name |-> <<>>, type |-> type, input_layers |-> <<>>, output_layers |-> <<>>,
   num_inputs |-> 1, num_outputs |-> 1, activation_type |-> "ACT_NONE",
   flatten |-> FALSE, input_data_len |-> 0, trainable |-> TRUE,
   loss |-> "LOSS_UNKNOWN"]

\* The graph fields the realization passes read and write, as one record.
Graph(o, a, n, c, names) ==
  [objs |-> o, adj |-> a, num_node |-> n, def_name_count |-> c,
   layer_names |-> names]

\* the do-while of ensureName run once only
FreshCount_once(names, direct_name, k) == k

RECURSIVE FreshCount(_, _, _)
\* the value of def_name_count whose name ends the do-while of ensureName
FreshCount(names, direct_name, k) ==
  IF (direct_name \o to_string(k)) \in names
  THEN FreshCount(names, direct_name, k + 1)
  ELSE k

\* NetworkGraph::ensureName
ensureName(g, id, prefix, force_rename) ==
  LET orig_name == g.objs[id].name
      orig_name_empty == orig_name = <<>>
      setName(n) == [g EXCEPT !.objs[id].name = n]
  IN IF ~orig_name_empty /\ ~force_rename /\ orig_name \notin g.layer_names
     THEN g
     ELSE IF ~orig_name_empty /\ (prefix \o orig_name) \notin g.layer_names
     THEN setName(prefix \o orig_name)
     ELSE LET base == IF orig_name_empty THEN TypeString(g.objs[id].type)
                      ELSE orig_name
              direct_name == prefix \o base
              k == FreshCount(g.layer_names, direct_name, g.def_name_count)
          IN [setName(direct_name \o to_string(k)) EXCEPT !.def_name_count = k + 1]

\* NetworkGraph::addLayerNode
addLayerNode(g, id) ==
  LET g1 == ensureName(g, id, <<>>, FALSE)
  IN [g1 EXCEPT !.adj = Append(@, <<[layer |-> id, index |-> g1.num_node]>>),
                !.num_node = @ + 1]

\* the layer object a fresh shared_ptr points to
NewObj(g, layer) == [g EXCEPT !.objs = Append(@, layer)]
NewId(g) == Len(g.objs) + 1

RECURSIVE FirstMatch(_, _, _, _, _)
\* the first (i, j), scanning the flat list in order, with
\* layers[i]->input_layers[j] equal to cname; <<0, 0>> when there is none
FirstMatch(o, ls, cname, i, j) ==
  IF i > Len(ls) THEN <<0, 0>>
  ELSE IF j > Len(o[ls[i]].input_layers) THEN FirstMatch(o, ls, cname, i + 1, 1)
  ELSE IF istrequal(o[ls[i]].input_layers[j], cname) THEN <<i, j>>
  ELSE FirstMatch(o, ls, cname, i, j + 1)

\* NetworkGraph::updateNameInLayers
updateNameInLayers(o, ls, cname, name) ==
  LET m == FirstMatch(o, ls, cname, 1, 1)
  IN IF m[1] = 0 THEN o
     ELSE [o EXCEPT ![ls[m[1]]].input_layers[m[2]] = name]

RECURSIVE Consumers(_, _, _, _, _)
\* the names setOutputLayers pushes onto layers[idx]->output_layers: one for
\* every input of every layer of another name that names layers[idx]
Consumers(o, ls, idx, i, j) ==
  IF i > Len(ls) THEN <<>>
  ELSE IF istrequal(o[ls[i]].name, o[ls[idx]].name)
  THEN Consumers(o, ls, idx, i + 1, 1)
  ELSE IF j > Len(o[ls[i]].input_layers) THEN Consumers(o, ls, idx, i + 1, 1)
  ELSE IF istrequal(o[ls[i]].input_layers[j], o[ls[idx]].name)
  THEN <<o[ls[i]].name>> \o Consumers(o, ls, idx, i, j + 1)
  ELSE Consumers(o, ls, idx, i, j + 1)

RECURSIVE ScanOutputs(_, _, _)
\* the first loop of setOutputLayers, from idx on
ScanOutputs(o, ls, idx) ==
  IF idx > Len(ls) THEN o
  ELSE LET outs == o[ls[idx]].output_layers \o Consumers(o, ls, idx, 1, 1)
       IN ScanOutputs([o EXCEPT ![ls[idx]].output_layers = outs,
                                ![ls[idx]].num_outputs = Len(outs)],
                      ls, idx + 1)

\* setOutputLayers checking only the last layer for outputs
setOutputLayers_lastOnly(o, ls) ==
  LET o1 == ScanOutputs(o, ls, 1)
      back == ls[Len(ls)]
      o2 == IF o1[back].num_outputs = 0
            THEN [o1 EXCEPT ![back].num_outputs = 1,
                            ![back].output_layers = Append(@, EXIT)]
            ELSE o1
  IN [objs |-> o2,
      status |-> IF Len(o2[back].output_layers) = 0
                 THEN EX_UNCONNECTED ELSE ML_ERROR_NONE]

\* NetworkGraph::setOutputLayers: the layers it leaves and whether it throws
setOutputLayers(o, ls) ==
  LET o1 == ScanOutputs(o, ls, 1)
      back == ls[Len(ls)]
      o2 == IF o1[back].num_outputs = 0
            THEN [o1 EXCEPT ![back].num_outputs = 1,
                            ![back].output_layers = Append(@, EXIT)]
            ELSE o1
  IN [objs |-> o2,
      status |-> IF \E k \in 1..Len(ls) : Len(o2[ls[k]].output_layers) = 0
                 THEN EX_UNCONNECTED ELSE ML_ERROR_NONE]

\* NetworkGraph::realizeMultiInputType
realizeMultiInputType(g, cur) ==
  IF g.objs[cur].num_inputs = 1 THEN g
  ELSE LET id == NewId(g)
           g1 == ensureName(NewObj(g, createLayer("addition")), id,
                            g.objs[cur].name, FALSE)
           g2 == [g1 EXCEPT !.objs[id].num_inputs = g.objs[cur].num_inputs,
                            !.objs[id].input_layers = g.objs[cur].input_layers,
                            !.objs[cur].num_inputs = 1,
                            !.objs[cur].input_layers = <<g1.objs[id].name>>]
       IN addLayerNode(g2, id)

\* NetworkGraph::realizeFlattenType
realizeFlattenType(g, cur) ==
  IF g.num_node = 0 THEN [g |-> g, status |-> ML_ERROR_INVALID_PARAMETER]
  ELSE IF g.objs[cur].type = "flatten"
  THEN [g |-> g, status |-> ML_ERROR_INVALID_PARAMETER]
  ELSE LET id == NewId(g)
           g1 == ensureName(NewObj(g, createLayer("flatten")), id,
                            g.objs[cur].name, FALSE)
           g2 == [g1 EXCEPT !.objs[id].num_inputs = 1,
                            !.objs[id].input_layers = <<g.objs[cur].name>>]
       IN [g |-> addLayerNode(g2, id), status |-> ML_ERROR_NONE]

\* NetworkGraph::realizeActivationType
realizeActivationType(g, cur, ls) ==
  LET act == g.objs[cur].activation_type
      id == NewId(g)
      g1 == ensureName(NewObj(g, createLayer("activation")), id,
                       g.objs[cur].name, FALSE)
      g2 == [g1 EXCEPT !.objs[id].activation_type = act,
                       !.objs[id].num_inputs = 1,
                       !.objs[id].input_layers = <<g.objs[cur].name>>]
      g3 == [g2 EXCEPT !.objs[id].num_outputs = g.objs[cur].num_outputs,
                       !.objs[id].output_layers =
                          SubSeq(g.objs[cur].output_layers, 1,
                                 g.objs[cur].num_outputs),
                       !.objs[cur].num_outputs = 1,
                       !.objs[cur].output_layers = <<g1.objs[id].name>>]
      g4 == addLayerNode(g3, id)
  IN IF act = "ACT_NONE" THEN [g |-> g, status |-> ML_ERROR_NONE]
     ELSE IF g.num_node = 0 THEN [g |-> g, status |-> ML_ERROR_INVALID_PARAMETER]
     ELSE IF g.objs[cur].type = "activation"
     THEN [g |-> g, status |-> ML_ERROR_INVALID_PARAMETER]
     ELSE IF act = "ACT_UNKNOWN"
     THEN [g |-> g, status |-> ML_ERROR_INVALID_PARAMETER]
     ELSE IF g.objs[cur].num_outputs # 1
     \* the activation layer, named and counted by ensureName, is dropped
     THEN [g |-> [g EXCEPT !.def_name_count = g1.def_name_count],
           status |-> ML_ERROR_INVALID_PARAMETER]
     ELSE [g |-> [g4 EXCEPT !.objs = updateNameInLayers(@, ls, g.objs[cur].name,
                                                        g4.objs[id].name)],
           status |-> ML_ERROR_NONE]

RECURSIVE RenameConsumers(_, _, _, _, _)
\* updateNameInLayers once per output of the current layer
RenameConsumers(o, ls, cname, name, k) ==
  IF k = 0 THEN o
  ELSE RenameConsumers(updateNameInLayers(o, ls, cname, name), ls, cname, name,
                       k - 1)

\* NetworkGraph::realizeMultiOutputType
realizeMultiOutputType(g, cur, ls) ==
  IF g.objs[cur].num_outputs = 1 THEN g
  ELSE LET id == NewId(g)
           g1 == ensureName(NewObj(g, createLayer("output")), id,
                            g.objs[cur].name, FALSE)
           outs == g.objs[cur].output_layers
           g2 == [g1 EXCEPT !.objs[id].num_inputs = 1,
                            !.objs[id].input_layers = <<g.objs[cur].name>>,
                            !.objs[id].num_outputs = g.objs[cur].num_outputs,
                            !.objs[id].output_layers = outs]
           g3 == [g2 EXCEPT !.objs = RenameConsumers(@, ls, g.objs[cur].name,
                                                     g1.objs[id].name, Len(outs))]
           g4 == [g3 EXCEPT !.objs[cur].num_outputs = 1,
                            !.objs[cur].output_layers = <<g1.objs[id].name>>]
       IN addLayerNode(g4, id)

(***************************************************************************)
(* Lookups.  A LayerNode is [layer, index]; index counts from 0 as in the  *)
(* code, sequences count from 1.  NoNode stands for the exception          *)
(* "Cannot find Layer".                                                    *)
(***************************************************************************)
NoNode == [layer |-> 0, index |-> -1]

\* NetworkGraph::getLayerNode(unsigned int): num_node - 1 of an empty graph
\* wraps around and finds nothing
getLayerNode(a, n, ith) ==
  IF \E i \in 1..n : a[i][1].index = ith
  THEN a[CHOOSE i \in 1..n : a[i][1].index = ith
                             /\ \A k \in 1..(i - 1) : a[k][1].index # ith][1]
  ELSE NoNode

\* NetworkGraph::getLayerNode(const std::string &): the first node of that name
getLayerNodeByName(o, a, layer_name) ==
  IF \E i \in 1..Len(a) : istrequal(o[a[i][1].layer].name, layer_name)
  THEN a[CHOOSE i \in 1..Len(a) :
             /\ istrequal(o[a[i][1].layer].name, layer_name)
             /\ \A k \in 1..(i - 1) : ~istrequal(o[a[k][1].layer].name, layer_name)][1]
  ELSE NoNode

\* NetworkGraph::addLossLayer
addLossLayer(g, loss) ==
  LET last == getLayerNode(g.adj, g.num_node, g.num_node - 1)
      entropy == loss = "LOSS_ENTROPY"
      act == g.objs[last.layer].activation_type
      \* the graph once the activation node is popped
      gp == IF entropy
            THEN [g EXCEPT !.adj = SubSeq(@, 1, Len(@) - 1), !.num_node = @ - 1]
            ELSE g
      updated_loss_type ==
        IF ~entropy THEN loss
        ELSE IF act = "ACT_SIGMOID" THEN "LOSS_ENTROPY_SIGMOID"
        ELSE "LOSS_ENTROPY_SOFTMAX"
      last_node == getLayerNode(gp.adj, gp.num_node, gp.num_node - 1)
      input_str == gp.objs[last_node.layer].name
      id == NewId(gp)
      g1 == ensureName(NewObj(gp, createLayer("loss")), id, <<>>, FALSE)
      g2 == [g1 EXCEPT !.objs[last_node.layer].num_outputs = 1,
                       !.objs[last_node.layer].output_layers = <<g1.objs[id].name>>,
                       !.objs[id].num_inputs = 1,
                       !.objs[id].input_layers = <<input_str>>,
                       !.objs[id].num_outputs = 1,
                       !.objs[id].output_layers = <<EXIT>>,
                       !.objs[id].loss = updated_loss_type]
  IN IF g.num_node = 0
     THEN [g |-> g, status |-> ML_ERROR_INVALID_PARAMETER, removed |-> <<>>]
     ELSE IF entropy /\ g.objs[last.layer].type # "activation"
     THEN [g |-> g, status |-> ML_ERROR_NOT_SUPPORTED, removed |-> <<>>]
     ELSE IF entropy /\ act \notin {"ACT_SIGMOID", "ACT_SOFTMAX"}
     THEN [g |-> gp, status |-> ML_ERROR_NOT_SUPPORTED, removed |-> <<last>>]
     ELSE IF last_node = NoNode
     THEN [g |-> gp, status |-> EX_CANNOT_FIND, removed |-> <<last>>]
     ELSE [g |-> addLayerNode(g2, id), status |-> ML_ERROR_NONE,
           removed |-> IF entropy THEN <<last>> ELSE <<>>]

\* addEdge recording a successor once only
addEdge_once(a, n, ith, node) ==
  IF ith > n - 1 THEN [adj |-> a, status |-> EX_EXCEED]
  ELSE IF \E k \in 2..Len(a[ith + 1]) : a[ith + 1][k] = node
  THEN [adj |-> a, status |-> ML_ERROR_NONE]
  ELSE [adj |-> [a EXCEPT ![ith + 1] = Append(@, node)], status |-> ML_ERROR_NONE]

\* NetworkGraph::addEdge
addEdge(a, n, ith, node) ==
  IF ith > n - 1 THEN [adj |-> a, status |-> EX_EXCEED]
  ELSE [adj |-> [a EXCEPT ![ith + 1] = Append(@, node)], status |-> ML_ERROR_NONE]

RECURSIVE setEdgeFrom(_, _, _, _, _)
\* the loops of setEdge from node i (1-based), input j
setEdgeFrom(o, a, n, i, j) ==
  IF i > Len(a) THEN [adj |-> a, status |-> ML_ERROR_NONE]
  ELSE LET node == a[i][1]
           l == o[node.layer]
       IN IF l.input_data_len # 0 THEN setEdgeFrom(o, a, n, i + 1, 1)
          ELSE IF j > Len(l.input_layers) THEN setEdgeFrom(o, a, n, i + 1, 1)
          ELSE IF istrequal(l.input_layers[j], DATA)
          THEN setEdgeFrom(o, a, n, i, j + 1)
          ELSE LET from == getLayerNodeByName(o, a, l.input_layers[j])
                   e == addEdge(a, n, from.index, node)
               IN IF from = NoNode THEN [adj |-> a, status |-> EX_CANNOT_FIND]
                  ELSE IF e.status # ML_ERROR_NONE THEN e
                  ELSE setEdgeFrom(o, e.adj, n, i, j + 1)

\* NetworkGraph::setEdge
setEdge(o, a, n) == setEdgeFrom(o, a, n, 1, 1)

RECURSIVE topologicalSortUtil(_, _, _, _)
RECURSIVE VisitSuccessors(_, _, _, _, _)
\* NetworkGraph::topologicalSortUtil; st is [visited, Stack], the top of the
\* stack being its last element
topologicalSortUtil(a, n, ith, st) ==
  LET st1 == [st EXCEPT !.visited[ith + 1] = TRUE]
      st2 == VisitSuccessors(a, n, ith, 1, st1)
  IN [st2 EXCEPT !.Stack = Append(@, getLayerNode(a, n, ith))]

\* the for loop of topologicalSortUtil over adj[ith], from its k-th element
VisitSuccessors(a, n, ith, k, st) ==
  IF k > Len(a[ith + 1]) THEN st
  ELSE LET next == a[ith + 1][k].index
       IN VisitSuccessors(a, n, ith, k + 1,
                          IF ~st.visited[next + 1]
                          THEN topologicalSortUtil(a, n, next, st)
                          ELSE st)

RECURSIVE SortFrom_revisit(_, _, _, _)
\* the for loop without its test of visited[i]
SortFrom_revisit(a, n, i, st) ==
  IF i >= n THEN st
  ELSE SortFrom_revisit(a, n, i + 1, topologicalSortUtil(a, n, i, st))

RECURSIVE SortFrom(_, _, _, _)
\* the for loop of topologicalSort from node i (0-based)
SortFrom(a, n, i, st) ==
  IF i >= n THEN st
  ELSE SortFrom(a, n, i + 1,
                IF ~st.visited[i + 1] THEN topologicalSortUtil(a, n, i, st) ELSE st)

Reverse(s) == [k \in 1..Len(s) |-> s[Len(s) + 1 - k]]

\* NetworkGraph::countNonTrainableLayersAtBegin
countNonTrainableLayersAtBegin(o, sorted, skip) ==
  IF \E k \in 1..Len(sorted) : o[sorted[k].layer].trainable
  THEN (CHOOSE k \in 1..Len(sorted) :
          /\ o[sorted[k].layer].trainable
          /\ \A m \in 1..(k - 1) : ~o[sorted[m].layer].trainable) - 1
  ELSE skip

\* topologicalSort draining the stack from the bottom
topologicalSort_bottomUp(a, n) ==
  SortFrom(a, n, 0, [visited |-> [k \in 1..n |-> FALSE], Stack |-> <<>>]).Stack

\* NetworkGraph::topologicalSort: what it appends to Sorted
topologicalSort(a, n) ==
  Reverse(SortFrom(a, n, 0, [visited |-> [k \in 1..n |-> FALSE], Stack |-> <<>>]).Stack)

\* the position (0-based) of layer_name in outs, Len(outs) when absent
Loc(outs, layer_name) ==
  IF \E k \in 1..Len(outs) : outs[k] = layer_name
  THEN (CHOOSE k \in 1..Len(outs) :
          outs[k] = layer_name /\ \A m \in 1..(k - 1) : outs[m] # layer_name) - 1
  ELSE Len(outs)

\* A Var_Grad handle (std::shared_ptr<Var_Grad>) is <<layer, slot>>, the
\* output slot (1-based) the object was made for; NullVG is the empty handle.
NullVG == <<0, 0>>

\* the last position of layer id in sorted, 0 when it is not there
LastPos(sorted, id) ==
  IF \E k \in 1..Len(sorted) : sorted[k].layer = id
  THEN CHOOSE k \in 1..Len(sorted) :
         sorted[k].layer = id /\ \A m \in (k + 1)..Len(sorted) : sorted[m].layer # id
  ELSE 0

\* NetworkGraph::setNumNetBufferSize: the sizes net_input and net_hidden of
\* every Layer are resized to ([input |-> , hidden |-> ] per Layer; a Layer
\* that is not in Sorted keeps its empty vectors)
setNumNetBufferSize(o, sorted) ==
  [id \in 1..Len(o) |->
     LET k == LastPos(sorted, id)
     IN [input |-> IF k = 0 THEN 0
                   ELSE IF k = 1 THEN o[id].num_inputs
                   ELSE Len(o[id].input_layers),
         hidden |-> IF k = 0 THEN 0
                    ELSE IF k = Len(sorted) THEN o[id].num_outputs
                    ELSE Len(o[id].output_layers)]]

\* The buffers as the network hands them out before the in-place pass:
\* every output slot holds a Var_Grad of its own, and an input slot shares
\* the Var_Grad of the producer's output slot that names the consumer (the
\* first sorted node's inputs and inputs without a producer stay empty).
setOutputBuffers(o, sizes) ==
  [id \in 1..Len(o) |-> [m \in 1..sizes[id].hidden |-> <<id, m>>]]

setInputBuffers(o, a, sorted, sizes) ==
  [id \in 1..Len(o) |->
     [j \in 1..sizes[id].input |->
        IF LastPos(sorted, id) = 1 \/ j > Len(o[id].input_layers) THEN NullVG
        ELSE LET prev_node == getLayerNodeByName(o, a, o[id].input_layers[j])
             IN IF prev_node = NoNode THEN NullVG
                ELSE LET location == Loc(o[prev_node.layer].output_layers, o[id].name)
                     IN IF location < sizes[prev_node.layer].hidden
                        THEN <<prev_node.layer, location + 1>>
                        ELSE NullVG]]

\* the Var_Grad objects behind the output slots: a variable tensor and a
\* gradient tensor each
newVarGrads(o, sizes) ==
  [vg \in UNION {{<<id, m>> : m \in 1..sizes[id].hidden} : id \in 1..Len(o)} |->
     [var |-> <<"var", vg[1], vg[2]>>, grad |-> <<"grad", vg[1], vg[2]>>]]

\* Var_Grad::updateVariableByVariable(vg): the variable becomes vg's variable
updateVariableByVariable(self, vg) == [self EXCEPT !.var = vg.var]

\* Var_Grad::updateGradientByVariable(vg): the gradient becomes vg's variable
updateGradientByVariable(self, vg) == [self EXCEPT !.grad = vg.var]

\* an index past the end of net_input or net_hidden, or an empty handle
\* dereferenced
UB_BUFFER == "undefined behaviour: buffer slot out of range"

\* the check with the test of the predecessor's type left out
prev_layer_in_place_never(prev_layer) == FALSE

\* inPlaceOptimize's "check if previous layer was also in-place"
prev_layer_in_place(prev_layer) ==
  \E t \in 1..Len(in_place_layers) : prev_layer.type = in_place_layers[t]

\* the slots the sharing of layer id with slot loc (0-based) of layer prev
\* reads and writes exist, and the handles it dereferences are not empty
SlotsExist(r, type, id, prev, loc) ==
  /\ Len(r.net_hidden[id]) >= 1
  /\ loc < Len(r.net_hidden[prev])
  /\ IF type = "batch_normalization"
     THEN Len(r.net_input[id]) >= 1
     ELSE r.net_hidden[id][1] # NullVG /\ r.net_hidden[prev][loc + 1] # NullVG

\* the batch-normalization rule without the write to the predecessor's slot
shareBatchNormalization_inputOnly(r, id, prev, loc) ==
  [r EXCEPT !.net_input[id][1] = r.net_hidden[id][1]]

\* inPlaceOptimize's "Share tensor with next layer" for batch
\* normalization: I2 = O2, then O1 = O2, as handles
shareBatchNormalization(r, id, prev, loc) ==
  LET inplace_shared_vg_ptr == r.net_hidden[id][1]
      r1 == [r EXCEPT !.net_input[id][1] = inplace_shared_vg_ptr]
  IN [r1 EXCEPT !.net_hidden[prev][loc + 1] = inplace_shared_vg_ptr]

\* the activation rule with the predecessor's variable left alone
shareActivation_gradOnly(r, id, prev, loc) ==
  LET inplace_shared_vg == r.var_grads[r.net_hidden[id][1]]
  IN [r EXCEPT !.var_grads[r.net_hidden[prev][loc + 1]] =
                 updateGradientByVariable(@, inplace_shared_vg)]

\* the same for activation: the Var_Grad behind the predecessor's output
\* slot takes this layer's output variable as variable and as gradient
shareActivation(r, id, prev, loc) ==
  LET inplace_shared_vg == r.var_grads[r.net_hidden[id][1]]
      r1 == [r EXCEPT !.var_grads[r.net_hidden[prev][loc + 1]] =
                        updateVariableByVariable(@, inplace_shared_vg)]
  IN [r1 EXCEPT !.var_grads[r.net_hidden[prev][loc + 1]] =
                  updateGradientByVariable(@, inplace_shared_vg)]

RECURSIVE inPlaceOptimizeFrom(_, _, _, _, _, _)
\* NetworkGraph::inPlaceOptimize(layer_type, manager) from the k-th sorted
\* node; r is [in_place, untracked, status, net_input, net_hidden, var_grads]
inPlaceOptimizeFrom(o, a, sorted, layer_type, k, r) ==
  IF k > Len(sorted) THEN r
  ELSE LET l == o[sorted[k].layer]
           prev_node == getLayerNodeByName(o, a, l.input_layers[1])
           prev_layer == o[prev_node.layer]
           loc == Loc(prev_layer.output_layers, l.name)
           skip == inPlaceOptimizeFrom(o, a, sorted, layer_type, k + 1, r)
       IN IF ~(l.type = layer_type /\ l.activation_type # "ACT_SOFTMAX") THEN skip
          ELSE IF Len(l.input_layers) # 1 THEN [r EXCEPT !.status = EX_INTERNAL]
          ELSE IF prev_node = NoNode THEN [r EXCEPT !.status = EX_CANNOT_FIND]
          ELSE IF loc = Len(prev_layer.output_layers)
          THEN [r EXCEPT !.status = EX_INTERNAL]
          ELSE IF prev_layer.type = "input" THEN skip
          ELSE IF prev_layer_in_place(prev_layer) THEN skip
          ELSE IF l.type \notin {"batch_normalization", "activation"}
          THEN [r EXCEPT !.status = EX_NOT_IN_PLACE]
          ELSE IF ~SlotsExist(r, l.type, sorted[k].layer, prev_node.layer, loc)
          THEN [r EXCEPT !.status = UB_BUFFER]
          ELSE inPlaceOptimizeFrom(o, a, sorted, layer_type, k + 1,
                 [(IF l.type = "batch_normalization"
                   THEN shareBatchNormalization(r, sorted[k].layer, prev_node.layer, loc)
                   ELSE shareActivation(r, sorted[k].layer, prev_node.layer, loc))
                    EXCEPT !.in_place = @ \cup {[node |-> sorted[k].layer,
                                                 prev |-> prev_node.layer,
                                                 loc |-> loc]},
                           !.untracked = Append(@, prev_layer.name)])

RECURSIVE inPlaceOptimize(_, _, _, _, _)
\* NetworkGraph::inPlaceOptimize(manager): one pass per in-place layer type,
\* an exception ending them
inPlaceOptimize(o, a, sorted, t, r) ==
  IF t > Len(in_place_layers) \/ r.status # ML_ERROR_NONE THEN r
  ELSE inPlaceOptimize(o, a, sorted, t + 1,
                       inPlaceOptimizeFrom(o, a, sorted, in_place_layers[t], 1, r))

\* the exception a layer's forwarding raises
EX_FORWARD == "exception raised by Layer::forwarding"

\* forwarding going on with the next node after a node's forwarding raised
forwarding_goOn(o, sorted, raises) ==
  [forwarded |-> [k \in 1..Len(sorted) |-> sorted[k].layer],
   out |-> <<>>,
   status |-> IF raises = 0 THEN ML_ERROR_NONE ELSE EX_FORWARD]

\* NetworkGraph::forwarding on a non-empty Sorted; raises is the position in
\* Sorted of the node whose forwarding raises, 0 when none does.  A tensor
\* of the result is <<layer, slot>>, net_hidden of the last node having
\* num_outputs slots (setNumNetBufferSize).
forwarding(o, sorted, raises) ==
  LET back == sorted[Len(sorted)].layer
  IN IF raises = 0
     THEN [forwarded |-> [k \in 1..Len(sorted) |-> sorted[k].layer],
           out |-> [k \in 1..o[back].num_outputs |-> <<back, k>>],
           status |-> ML_ERROR_NONE]
     ELSE [forwarded |-> [k \in 1..raises |-> sorted[k].layer],
           out |-> <<>>,
           status |-> EX_FORWARD]

(***************************************************************************)
(* The flat layer lists the pipeline is run on.                            *)
(***************************************************************************)
\* a layer as the caller configures it: Layer::setProperty(input_layers)
\* sets num_inputs to the number of names given
UserLayer(name, tpl, inputs) ==
  [createLayer(tpl.type) EXCEPT
     !.name = name,
     !.input_layers = inputs,
     !.num_inputs = IF inputs = <<>> THEN 1 ELSE Len(inputs),
     !.activation_type = tpl.activation_type,
     !.flatten = tpl.flatten,
     !.input_data_len = tpl.input_data_len,
     !.trainable = tpl.trainable]

Tpl(type, act, flatten, len, trainable) ==
  [type |-> type, activation_type |-> act, flatten |-> flatten,
   input_data_len |-> len, trainable |-> trainable]

LayerName(i) == <<LowerCase[i]>>

DefaultNames(n) == [i \in 1..n |-> LayerName(i)]

\* a, A, c, ...: istrequal takes the second layer's name for the first's
ClashingNames(n) == [i \in 1..n |-> IF i = 2 THEN <<UpperCase[1]>> ELSE LayerName(i)]

InputTpl == Tpl("input", "ACT_NONE", FALSE, 1, FALSE)
PlainTpl == Tpl("conv2d", "ACT_NONE", FALSE, 0, TRUE)

\* Lists of any shape: every layer is an input layer, or a plain layer that
\* names one layer or two layers of the list (itself included, earlier or
\* later in the list; a pair in list order), so that fan-in, fan-out,
\* out-of-order references, cycles and unconnected layers all occur.
SingleChoices(names) ==
  {<<InputTpl, <<>>>>} \cup {<<PlainTpl, <<names[x]>>>> : x \in 1..Len(names)}

ShapeChoices(names) ==
  SingleChoices(names) \cup
  {<<PlainTpl, <<names[p[1]], names[p[2]]>>>> :
     p \in {q \in (1..Len(names)) \X (1..Len(names)) : q[1] <= q[2]}}

\* Lists with references setEdge does not resolve: besides the single
\* choices, a plain layer naming a layer that is not in the list, and a
\* plain layer whose input dimension is set, naming the first layer of the
\* list or a layer that is not in the list.
Absent == <<"z">>
FixedTpl == Tpl("conv2d", "ACT_NONE", FALSE, 1, TRUE)

EdgeChoices(names) ==
  SingleChoices(names) \cup
  {<<PlainTpl, <<Absent>>>>, <<FixedTpl, <<Absent>>>>, <<FixedTpl, <<names[1]>>>>}

\* Lists of any shape behind a head that asks for an activation and a
\* trailing flatten
ActHeadTpl == Tpl("conv2d", "ACT_RELU", TRUE, 1, TRUE)

ActHeadLayers(names, c) ==
  [i \in 1..Len(names) |->
     IF i = 1 THEN UserLayer(names[1], ActHeadTpl, <<>>)
     ELSE UserLayer(names[i], c[i][1], c[i][2])]

ShapeLayers(names, c) == [i \in 1..Len(names) |-> UserLayer(names[i], c[i][1], c[i][2])]

\* Chains: layer i consumes layer i - 1 and the head has its input dimension
\* set; every layer takes any of the kinds below, and the first two layers
\* may stand in the list in either order.
ChainTemplates ==
  {Tpl("input", "ACT_NONE", FALSE, 0, FALSE),
   Tpl("conv2d", "ACT_NONE", FALSE, 0, TRUE),
   Tpl("conv2d", "ACT_RELU", FALSE, 0, TRUE),
   Tpl("conv2d", "ACT_NONE", TRUE, 0, TRUE),
   Tpl("batch_normalization", "ACT_NONE", FALSE, 0, TRUE),
   Tpl("batch_normalization", "ACT_SOFTMAX", FALSE, 0, TRUE),
   Tpl("activation", "ACT_SIGMOID", FALSE, 0, TRUE)}

ChainLayer(i, t) ==
  UserLayer(LayerName(i),
            IF i = 1 THEN [t EXCEPT !.input_data_len = 1] ELSE t,
            IF i = 1 THEN <<>> ELSE <<LayerName(i - 1)>>)

Swap(s) == [k \in 1..Len(s) |-> IF k = 1 THEN s[2] ELSE IF k = 2 THEN s[1] ELSE s[k]]

ChainLayers(n, c, swap) ==
  LET chain == [i \in 1..n |-> ChainLayer(i, c[i])]
  IN IF swap /\ n >= 2 THEN Swap(chain) ELSE chain

LossTypes == {"LOSS_MSE", "LOSS_ENTROPY"}

\* Fans: a plain head with its input dimension set, behind it n - 1 layers
\* of the kinds inPlaceOptimize considers, or plain ones, all consuming the
\* head, and a tail that adds them up
FanTemplates ==
  {Tpl("conv2d", "ACT_NONE", FALSE, 0, TRUE),
   Tpl("batch_normalization", "ACT_NONE", FALSE, 0, TRUE),
   Tpl("activation", "ACT_SIGMOID", FALSE, 0, TRUE)}

AdditionTpl == Tpl("addition", "ACT_NONE", FALSE, 0, TRUE)

FanLayers(n, c) ==
  [i \in 1..(n + 1) |->
     IF i = 1 THEN UserLayer(LayerName(1), FixedTpl, <<>>)
     ELSE IF i <= n THEN UserLayer(LayerName(i), c[i], <<LayerName(1)>>)
     ELSE UserLayer(LayerName(i), AdditionTpl, [k \in 1..(n - 1) |-> LayerName(k + 1)])]

Init ==
  /\ \E n \in 1..MaxLayers :
       \/ \E c \in [1..n -> ShapeChoices(DefaultNames(n))] :
            objs = ShapeLayers(DefaultNames(n), c) /\ loss_type = "LOSS_NONE"
       \/ \E c \in [1..n -> SingleChoices(ClashingNames(n))] :
            objs = ShapeLayers(ClashingNames(n), c) /\ loss_type = "LOSS_NONE"
       \/ \E c \in [1..n -> EdgeChoices(DefaultNames(n))] :
            objs = ShapeLayers(DefaultNames(n), c) /\ loss_type = "LOSS_NONE"
       \/ \E c \in [2..n -> ShapeChoices(DefaultNames(n))] :
            objs = ActHeadLayers(DefaultNames(n), c) /\ loss_type = "LOSS_NONE"
       \/ \E c \in [1..n -> ChainTemplates] : \E swap \in BOOLEAN :
            objs = ChainLayers(n, c, swap) /\ loss_type \in LossTypes
       \/ \E c \in [2..n -> FanTemplates] :
            n >= 2 /\ objs = FanLayers(n, c) /\ loss_type = "LOSS_NONE"
  /\ layers = [i \in 1..Len(objs) |-> i]
  /\ adj = <<>>
  /\ num_node = 0
  /\ def_name_count = 0
  /\ layer_names = {}
  /\ Sorted = <<>>
  /\ skip_non_trainable_layers = 0
  /\ in_place = {}
  /\ untracked = <<>>
  /\ pc = "setOutputLayers"
  /\ li = 1
  /\ status = ML_ERROR_NONE
  /\ removed = <<>>
  /\ call = <<>>
  /\ forwarded = <<>>
  /\ out = <<>>
  /\ net_input = <<>>
  /\ net_hidden = <<>>
  /\ var_grads = <<>>

(***************************************************************************)
(* The pipeline: setGraphNode (in the steps of its body), setEdge,         *)
(* topologicalSort, inPlaceOptimize.                                       *)
(***************************************************************************)
G == Graph(objs, adj, num_node, def_name_count, layer_names)

\* the graph fields become those of g
SetGraph(g) ==
  /\ objs' = g.objs
  /\ adj' = g.adj
  /\ num_node' = g.num_node
  /\ def_name_count' = g.def_name_count
  /\ layer_names' = g.layer_names

\* the pipeline goes on to next when st is ML_ERROR_NONE and ends otherwise
Continue(st, next) ==
  /\ status' = st
  /\ pc' = IF st = ML_ERROR_NONE THEN next ELSE "failed"

\* setGraphNode: the call of setOutputLayers
SetOutputLayers ==
  /\ pc = "setOutputLayers"
  /\ LET r == setOutputLayers(objs, layers)
     IN /\ objs' = r.objs
        /\ Continue(r.status, "realizeMultiInput")
  /\ li' = 1
  /\ UNCHANGED <<call, forwarded, out, net_input, net_hidden, var_grads>>
  /\ UNCHANGED <<layers, loss_type, adj, num_node, def_name_count, layer_names,
                 Sorted, skip_non_trainable_layers, in_place, untracked, removed>>

\* setGraphNode, loop body: the default input, realizeMultiInputType and
\* addLayerNode of layers[i]
RealizeMultiInput ==
  /\ pc = "realizeMultiInput"
  /\ LET cur == layers[li]
         l == objs[cur]
         unbound == Len(l.input_layers) < 1
         g0 == IF unbound
               THEN [G EXCEPT !.objs[cur].num_inputs = 1,
                              !.objs[cur].input_layers = <<DATA>>]
               ELSE G
         g1 == IF l.type # "addition" /\ l.type # "concat"
               THEN realizeMultiInputType(g0, cur) ELSE g0
     IN IF unbound /\ l.input_data_len = 0
        THEN SetGraph(G) /\ Continue(EX_INPUT_DIM, "realizeActivation")
        ELSE SetGraph(addLayerNode(g1, cur))
             /\ Continue(ML_ERROR_NONE, "realizeActivation")
  /\ UNCHANGED <<call, forwarded, out, net_input, net_hidden, var_grads>>
  /\ UNCHANGED <<layers, loss_type, Sorted, skip_non_trainable_layers, in_place,
                 untracked, li, removed>>

\* setGraphNode, loop body: realizeActivationType of layers[i]
RealizeActivation ==
  /\ pc = "realizeActivation"
  /\ LET cur == layers[li]
         r == IF objs[cur].type # "activation"
              THEN realizeActivationType(G, cur, layers)
              ELSE [g |-> G, status |-> ML_ERROR_NONE]
     IN SetGraph(r.g) /\ Continue(r.status, "realizeMultiOutput")
  /\ UNCHANGED <<call, forwarded, out, net_input, net_hidden, var_grads>>
  /\ UNCHANGED <<layers, loss_type, Sorted, skip_non_trainable_layers, in_place,
                 untracked, li, removed>>

\* setGraphNode, loop body: realizeMultiOutputType of layers[i]
RealizeMultiOutput ==
  /\ pc = "realizeMultiOutput"
  /\ LET cur == layers[li]
     IN SetGraph(IF objs[cur].type # "output"
                 THEN realizeMultiOutputType(G, cur, layers) ELSE G)
  /\ Continue(ML_ERROR_NONE, "realizeFlatten")
  /\ UNCHANGED <<call, forwarded, out, net_input, net_hidden, var_grads>>
  /\ UNCHANGED <<layers, loss_type, Sorted, skip_non_trainable_layers, in_place,
                 untracked, li, removed>>

\* setGraphNode, loop body: realizeFlattenType of layers[i], and the loop's
\* step
RealizeFlatten ==
  /\ pc = "realizeFlatten"
  /\ LET cur == layers[li]
         r == IF objs[cur].flatten THEN realizeFlattenType(G, cur)
              ELSE [g |-> G, status |-> ML_ERROR_NONE]
     IN /\ SetGraph(r.g)
        /\ Continue(r.status,
                    IF li < Len(layers) THEN "realizeMultiInput" ELSE "addLossLayer")
        /\ li' = IF r.status = ML_ERROR_NONE /\ li < Len(layers) THEN li + 1 ELSE li
  /\ UNCHANGED <<call, forwarded, out, net_input, net_hidden, var_grads>>
  /\ UNCHANGED <<layers, loss_type, Sorted, skip_non_trainable_layers, in_place,
                 untracked, removed>>

\* setGraphNode: the loss layer, and its return
AddLossLayer ==
  /\ pc = "addLossLayer"
  /\ LET r == IF objs[layers[Len(layers)]].type # "loss" /\ loss_type # "LOSS_NONE"
              THEN addLossLayer(G, loss_type)
              ELSE [g |-> G, status |-> ML_ERROR_NONE, removed |-> <<>>]
     IN /\ SetGraph(r.g)
        /\ removed' = r.removed
        /\ Continue(r.status, "setEdge")
  /\ UNCHANGED <<call, forwarded, out, net_input, net_hidden, var_grads>>
  /\ UNCHANGED <<layers, loss_type, Sorted, skip_non_trainable_layers, in_place,
                 untracked, li>>

SetEdge ==
  /\ pc = "setEdge"
  /\ LET r == setEdge(objs, adj, num_node)
     IN adj' = r.adj /\ Continue(r.status, "topologicalSort")
  /\ UNCHANGED <<call, forwarded, out, net_input, net_hidden, var_grads>>
  /\ UNCHANGED <<objs, layers, loss_type, num_node, def_name_count, layer_names,
                 Sorted, skip_non_trainable_layers, in_place, untracked, li,
                 removed>>

TopologicalSort ==
  /\ pc = "topologicalSort"
  /\ Sorted' = Sorted \o topologicalSort(adj, num_node)
  /\ skip_non_trainable_layers' =
       countNonTrainableLayersAtBegin(objs, Sorted', skip_non_trainable_layers)
  /\ Continue(ML_ERROR_NONE, "setNumNetBufferSize")
  /\ UNCHANGED <<call, forwarded, out, net_input, net_hidden, var_grads>>
  /\ UNCHANGED <<objs, layers, loss_type, adj, num_node, def_name_count,
                 layer_names, in_place, untracked, li, removed>>

\* setNumNetBufferSize, and the buffers handed out for the sized slots
SetNumNetBufferSize ==
  /\ pc = "setNumNetBufferSize"
  /\ LET sizes == setNumNetBufferSize(objs, Sorted)
     IN /\ net_hidden' = setOutputBuffers(objs, sizes)
        /\ net_input' = setInputBuffers(objs, adj, Sorted, sizes)
        /\ var_grads' = newVarGrads(objs, sizes)
  /\ Continue(ML_ERROR_NONE, "inPlaceOptimize")
  /\ UNCHANGED <<objs, layers, loss_type, adj, num_node, def_name_count,
                 layer_names, Sorted, skip_non_trainable_layers, in_place,
                 untracked, li, removed, call, forwarded, out>>

InPlaceOptimize ==
  /\ pc = "inPlaceOptimize"
  /\ LET r == inPlaceOptimize(objs, adj, Sorted, 1,
                              [in_place |-> in_place, untracked |-> untracked,
                               status |-> ML_ERROR_NONE,
                               net_input |-> net_input, net_hidden |-> net_hidden,
                               var_grads |-> var_grads])
     IN /\ in_place' = r.in_place
        /\ untracked' = r.untracked
        /\ net_input' = r.net_input
        /\ net_hidden' = r.net_hidden
        /\ var_grads' = r.var_grads
        /\ Continue(r.status, "done")
  /\ UNCHANGED <<call, forwarded, out>>
  /\ UNCHANGED <<objs, layers, loss_type, adj, num_node, def_name_count,
                 layer_names, Sorted, skip_non_trainable_layers, li, removed>>

\* NetworkGraph::forwarding(training) on the graph the pipeline built
Forwarding ==
  /\ pc = "done"
  /\ \E raises \in 0..Len(Sorted) :
       LET r == forwarding(objs, Sorted, raises)
       IN /\ call' = [raises |-> raises]
          /\ forwarded' = r.forwarded
          /\ out' = r.out
          /\ Continue(r.status, "forwarded")
  /\ UNCHANGED <<objs, layers, loss_type, adj, num_node, def_name_count,
                 layer_names, Sorted, skip_non_trainable_layers, in_place,
                 untracked, li, removed, net_input, net_hidden, var_grads>>

Next ==
  \/ SetOutputLayers
  \/ RealizeMultiInput
  \/ RealizeActivation
  \/ RealizeMultiOutput
  \/ RealizeFlatten
  \/ AddLossLayer
  \/ SetEdge
  \/ TopologicalSort
  \/ SetNumNetBufferSize
  \/ InPlaceOptimize
  \/ Forwarding

Spec == Init /\ [][Next]_vars

(***************************************************************************)
(* ensureName on its own: one layer, any registry of used names that can   *)
(* matter to the call, any prefix, forced or not.                          *)
(***************************************************************************)
MaxCount == 1

EnNames == {<<>>, <<"a">>}
EnPrefixes == {<<>>, <<"b">>}

\* the names the call can look up in layer_names
EnLookups(name, type, prefix, count) ==
  LET base == IF name = <<>> THEN TypeString(type) ELSE name
  IN {name, prefix \o name} \cup
     {prefix \o base \o to_string(k) : k \in count..(count + 1)}

InitEnsureName ==
  /\ \E name \in EnNames, prefix \in EnPrefixes, force_rename \in BOOLEAN,
        count \in 0..MaxCount :
       /\ objs = <<[createLayer("conv2d") EXCEPT !.name = name]>>
       /\ def_name_count = count
       /\ layer_names \in SUBSET (EnLookups(name, "conv2d", prefix, count) \ {<<>>})
       /\ call = [prefix |-> prefix, force_rename |-> force_rename,
                  name |-> name, def_name_count |-> count]
  /\ layers = <<1>>
  /\ loss_type = "LOSS_NONE"
  /\ adj = <<>>
  /\ num_node = 0
  /\ Sorted = <<>>
  /\ skip_non_trainable_layers = 0
  /\ in_place = {}
  /\ untracked = <<>>
  /\ pc = "ensureName"
  /\ li = 1
  /\ status = ML_ERROR_NONE
  /\ removed = <<>>
  /\ forwarded = <<>>
  /\ out = <<>>
  /\ net_input = <<>>
  /\ net_hidden = <<>>
  /\ var_grads = <<>>

\* ensureName(layer, prefix, force_rename)
EnsureName ==
  /\ pc = "ensureName"
  /\ SetGraph(ensureName(G, 1, call.prefix, call.force_rename))
  /\ pc' = "named"
  /\ UNCHANGED <<layers, loss_type, Sorted, skip_non_trainable_layers, in_place,
                 untracked, li, status, removed, call, forwarded, out,
                 net_input, net_hidden, var_grads>>

NextEnsureName == EnsureName

SpecEnsureName == InitEnsureName /\ [][NextEnsureName]_vars

(***************************************************************************)
(* What the claims speak of.                                               *)
(***************************************************************************)
\* setGraphNode has returned ML_ERROR_NONE
Built == pc \in {"setEdge", "topologicalSort", "setNumNetBufferSize",
                  "inPlaceOptimize", "done", "forwarded"}

\* the Layer of the i-th node of the graph (1-based)
NodeLayer(i) == objs[adj[i][1].layer]

\* the structural edges <<u, v>> recorded by addEdge, by node index
Edges ==
  UNION {{<<u, adj[u + 1][k].index>> : k \in 2..Len(adj[u + 1])} :
           u \in 0..(Len(adj) - 1)}

RECURSIVE Peel(_, _)
\* what is left of the nodes N after removing, again and again, the nodes
\* no edge of R enters, together with the edges leaving them
Peel(N, R) ==
  LET src == {n \in N : \A e \in R : e[2] # n}
  IN IF src = {} THEN N ELSE Peel(N \ src, {e \in R : e[1] \notin src})

\* R has no cycle: peeling leaves no node
Acyclic(R) == Peel(0..(Len(adj) - 1), R) = {}

\* a layer of the flat list ls that is not the last one and that no other
\* layer of the list names as an input
HasUnreferenced(o, ls) ==
  \E i \in 1..(Len(ls) - 1) :
    \A j \in (1..Len(ls)) \ {i} :
      \A k \in 1..Len(o[ls[j]].input_layers) :
        ~istrequal(o[ls[j]].input_layers[k], o[ls[i]].name)

(***************************************************************************)
(* C1: after a successful build no two nodes of the graph have names that  *)
(* are equal under case-insensitive comparison.                            *)
(***************************************************************************)
C1_UniqueNames ==
  Built => \A i, j \in 1..Len(adj) :
             i # j => ~istrequal(NodeLayer(i).name, NodeLayer(j).name)

(***************************************************************************)
(* C2: after setEdge and topologicalSort on an acyclic adjacency relation, *)
(* every structural edge (u -> v) has u at a strictly smaller position of  *)
(* Sorted than v.                                                          *)
(***************************************************************************)
C2_TopologicalOrder ==
  (Sorted # <<>> /\ Acyclic(Edges)) =>
    \A e \in Edges :
      \E i, j \in 1..Len(Sorted) :
        i < j /\ Sorted[i].index = e[1] /\ Sorted[j].index = e[2]

\* a sorted acyclic graph with an edge against the insertion order
C2_Witness ==
  /\ Sorted # <<>>
  /\ Acyclic(Edges)
  /\ \E e \in Edges : e[1] > e[2]

C10_NameRegistered ==
  \A i \in 1..Len(adj) : NodeLayer(i).name \in layer_names

\* the last node of the graph, as addLossLayer looks it up
LastNode == getLayerNode(adj, num_node, num_node - 1)

\* the layer object is the layer of a node of the graph
InGraph(id) == \E i \in 1..Len(adj) : adj[i][1].layer = id

\* the in-place optimizer aliased the layer object to its predecessor
Aliased(id) == \E r \in in_place : r.node = id

(***************************************************************************)
(* C3: when cross-entropy is requested and the last node is a sigmoid or   *)
(* softmax activation, the build removes that node from the graph and the  *)
(* sorted order and appends one loss node of the matching fused kind,      *)
(* whose single input is the node that produced the removed activation's   *)
(* input; that producer's single output is the loss node.                  *)
(***************************************************************************)
C3_Fusion ==
  (Built /\ loss_type = "LOSS_ENTROPY" /\ removed # <<>>) =>
    LET act == objs[removed[1].layer]
        loss == NodeLayer(Len(adj))
        producer == getLayerNodeByName(objs, adj, act.input_layers[1])
    IN /\ ~InGraph(removed[1].layer)
       /\ \A k \in 1..Len(Sorted) : Sorted[k].layer # removed[1].layer
       /\ loss.type = "loss"
       /\ \A i \in 1..(Len(adj) - 1) : NodeLayer(i).type # "loss"
       /\ loss.loss = (IF act.activation_type = "ACT_SIGMOID"
                       THEN "LOSS_ENTROPY_SIGMOID" ELSE "LOSS_ENTROPY_SOFTMAX")
       /\ producer # NoNode
       /\ loss.input_layers = <<objs[producer.layer].name>>
       /\ objs[producer.layer].output_layers = <<loss.name>>

(***************************************************************************)
(* C4: when cross-entropy is requested and the last node is an activation  *)
(* that is neither sigmoid nor softmax, addLossLayer fails with the        *)
(* not-supported error and leaves the graph as it was: the same nodes, the *)
(* activation node included, and the same num_node.                        *)
(***************************************************************************)
C4_RejectionKeepsGraph ==
  [][(/\ pc = "addLossLayer"
      /\ loss_type = "LOSS_ENTROPY"
      /\ objs[layers[Len(layers)]].type # "loss"
      /\ num_node > 0
      /\ objs[LastNode.layer].type = "activation"
      /\ objs[LastNode.layer].activation_type \notin {"ACT_SIGMOID", "ACT_SOFTMAX"})
     => (/\ pc' = "failed"
         /\ status' = ML_ERROR_NOT_SUPPORTED
         /\ num_node' = num_node
         /\ adj' = adj)]_vars

(***************************************************************************)
(* C5: for a layer of the flat list with k > 1 inputs that is neither an   *)
(* addition nor a concat layer, realization inserts exactly one addition   *)
(* node, before the layer's own node, with the layer's k inputs in their   *)
(* order and exactly one output, the layer; the layer is left with exactly *)
(* one input, the addition node's name.                                    *)
(***************************************************************************)
C5_FanIn ==
  [][(/\ pc = "realizeMultiInput"
      /\ Len(objs[layers[li]].input_layers) > 1
      /\ objs[layers[li]].type \notin {"addition", "concat"})
     => LET cur == layers[li]
            id == Len(objs) + 1
        IN /\ pc' = "realizeActivation"
           /\ Len(objs') = Len(objs) + 1
           /\ num_node' = num_node + 2
           /\ Len(adj') = Len(adj) + 2
           /\ adj'[num_node + 1] = <<[layer |-> id, index |-> num_node]>>
           /\ adj'[num_node + 2] = <<[layer |-> cur, index |-> num_node + 1]>>
           /\ objs'[id].type = "addition"
           /\ objs'[id].input_layers = objs[cur].input_layers
           /\ objs'[id].num_inputs = Len(objs[cur].input_layers)
           /\ objs'[id].num_outputs = 1
           /\ objs'[id].output_layers = <<objs[cur].name>>
           /\ objs'[cur].input_layers = <<objs'[id].name>>
           /\ objs'[cur].num_inputs = 1]_vars

(***************************************************************************)
(* C6: for a layer of the flat list with k > 1 outputs that is not an      *)
(* output (duplicator) layer, realization inserts exactly one output node  *)
(* after the layer's node, with one input (the layer) and the layer's k    *)
(* outputs in their order; the layer is left with exactly one output, the  *)
(* duplicator, and each of the k consumers names the duplicator instead of *)
(* the layer as its input.                                                 *)
(***************************************************************************)
C6_FanOut ==
  [][(/\ pc = "realizeMultiOutput"
      /\ objs[layers[li]].num_outputs > 1
      /\ objs[layers[li]].type # "output")
     => LET cur == layers[li]
            id == Len(objs) + 1
            outs == objs[cur].output_layers
        IN /\ pc' = "realizeFlatten"
           /\ Len(objs') = Len(objs) + 1
           /\ num_node' = num_node + 1
           /\ adj'[num_node + 1] = <<[layer |-> id, index |-> num_node]>>
           /\ objs'[id].type = "output"
           /\ objs'[id].input_layers = <<objs[cur].name>>
           /\ objs'[id].output_layers = outs
           /\ objs'[id].num_outputs = Len(outs)
           /\ objs'[cur].output_layers = <<objs'[id].name>>
           /\ \A k \in 1..Len(outs) :
                \E x \in 1..Len(layers) :
                  /\ istrequal(objs'[layers[x]].name, outs[k])
                  /\ \E m \in 1..Len(objs'[layers[x]].input_layers) :
                       objs'[layers[x]].input_layers[m] = objs'[id].name
                  /\ \A m \in 1..Len(objs'[layers[x]].input_layers) :
                       ~istrequal(objs'[layers[x]].input_layers[m], objs[cur].name)]_vars

(***************************************************************************)
(* C7 as stated: after inPlaceOptimize no node aliased to its predecessor  *)
(* has a predecessor that is itself aliased, and in a chain conv ->        *)
(* batchnorm -> activation exactly one of batchnorm and activation is      *)
(* aliased to its predecessor.                                             *)
(***************************************************************************)
ConvBnActChain(i, j, k) ==
  /\ NodeLayer(i).type = "conv2d"
  /\ NodeLayer(j).type = "batch_normalization"
  /\ NodeLayer(k).type = "activation"
  /\ NodeLayer(j).input_layers = <<NodeLayer(i).name>>
  /\ NodeLayer(i).output_layers = <<NodeLayer(j).name>>
  /\ NodeLayer(k).input_layers = <<NodeLayer(j).name>>
  /\ NodeLayer(j).output_layers = <<NodeLayer(k).name>>

NodeAliased(i) == Aliased(adj[i][1].layer)

C7_ExactlyOneAliased ==
  /\ \A r \in in_place : ~Aliased(r.prev)
  /\ pc = "done" =>
       \A i, j, k \in 1..Len(adj) :
         ConvBnActChain(i, j, k) =>
           \/ (NodeAliased(j) /\ ~NodeAliased(k))
           \/ (~NodeAliased(j) /\ NodeAliased(k))

(***************************************************************************)
(* C7, amended: after inPlaceOptimize no node aliased to its predecessor   *)
(* has a predecessor that is itself aliased; in a chain conv -> batchnorm  *)
(* -> activation the activation is never aliased, and the batchnorm is     *)
(* aliased exactly when its own activation type is not softmax, so at most *)
(* one of the two is aliased and none when the batchnorm carries softmax.  *)
(***************************************************************************)
C7_NoConsecutiveAlias ==
  /\ \A r \in in_place : ~Aliased(r.prev)
  /\ pc = "done" =>
       \A i, j, k \in 1..Len(adj) :
         ConvBnActChain(i, j, k) =>
           /\ ~NodeAliased(k)
           /\ (NodeAliased(j) <=> NodeLayer(j).activation_type # "ACT_SOFTMAX")

\* the pass has run on a chain conv -> batchnorm -> activation whose
\* activation could be aliased by its own kind, and aliased the batchnorm
C7_Witness ==
  /\ pc = "done"
  /\ \E i, j, k \in 1..Len(adj) :
       /\ ConvBnActChain(i, j, k)
       /\ NodeLayer(k).activation_type # "ACT_SOFTMAX"
       /\ NodeAliased(j)
       /\ ~NodeAliased(k)

(***************************************************************************)
(* C11: ensureName(layer, prefix, force) leaves a non-empty, unforced,     *)
(* unused name unchanged without advancing the counter; otherwise renames  *)
(* the layer to prefix+name, without advancing the counter, when the name  *)
(* is non-empty and prefix+name is unused; otherwise renames it to         *)
(* prefix+base+k, base being the name if non-empty else the type tag and k *)
(* the first counter value from the current one on for which that name is  *)
(* unused; the counter never decreases.                                    *)
(***************************************************************************)
C11_EnsureNameRule ==
  [][pc = "ensureName" =>
      LET name == objs[1].name
          prefix == call.prefix
          base == IF name = <<>> THEN TypeString(objs[1].type) ELSE name
          keep == name # <<>> /\ ~call.force_rename /\ name \notin layer_names
          direct == name # <<>> /\ (prefix \o name) \notin layer_names
          Numbered(k) == prefix \o base \o to_string(k)
      IN /\ def_name_count' >= def_name_count
         /\ keep => (objs'[1].name = name /\ def_name_count' = def_name_count)
         /\ (~keep /\ direct) =>
              (objs'[1].name = prefix \o name /\ def_name_count' = def_name_count)
         /\ (~keep /\ ~direct) =>
              \E k \in def_name_count..(def_name_count + 2) :
                /\ objs'[1].name = Numbered(k)
                /\ Numbered(k) \notin layer_names
                /\ \A m \in def_name_count..(k - 1) : Numbered(m) \in layer_names]_vars

\* a call that found both the name and the first synthesized name in use
\* and took the next counter value
C11_Witness ==
  /\ pc = "named"
  /\ call.name # <<>>
  /\ call.name \in layer_names
  /\ objs[1].name =
       call.prefix \o call.name \o to_string(call.def_name_count + 1)
  /\ def_name_count = call.def_name_count + 2

\* the (node, input) pairs setEdge resolves: the inputs, other than the
\* external input, of the nodes whose input dimension is not set
EdgeRefs ==
  UNION {{<<i, j>> : j \in {m \in 1..Len(NodeLayer(i).input_layers) :
                               ~istrequal(NodeLayer(i).input_layers[m], DATA)}} :
           i \in {n \in 1..Len(adj) : NodeLayer(n).input_data_len = 0}}

\* the nodes (1-based) whose name the input r names
Owners(r) ==
  {i \in 1..Len(adj) :
     istrequal(NodeLayer(i).name, NodeLayer(r[1]).input_layers[r[2]])}

\* the first of them
Owner(r) == CHOOSE i \in Owners(r) : \A k \in Owners(r) : i <= k

(***************************************************************************)
(* C12: setEdge records, for every node whose input dimension is not set   *)
(* and every input name of it other than "__data__", one edge from the     *)
(* node owning that name (compared without case) to the consuming node,    *)
(* and no other edge; when such a name matches no node of the graph,       *)
(* setEdge fails with invalid_argument "Cannot find Layer".                *)
(***************************************************************************)
C12_SetEdge ==
  [][pc = "setEdge" =>
      IF \E r \in EdgeRefs : Owners(r) = {}
      THEN pc' = "failed" /\ status' = EX_CANNOT_FIND
      ELSE /\ pc' = "topologicalSort"
           /\ Len(adj') = Len(adj)
           /\ \A u \in 1..Len(adj) :
                /\ adj'[u][1] = adj[u][1]
                /\ Len(adj'[u]) - 1 = Cardinality({r \in EdgeRefs : Owner(r) = u})
                /\ \A k \in 2..Len(adj'[u]) :
                     \E r \in EdgeRefs : Owner(r) = u /\ adj'[u][k] = adj[r[1]][1]
           /\ \A r \in EdgeRefs :
                \E k \in 2..Len(adj'[Owner(r)]) : adj'[Owner(r)][k] = adj[r[1]][1]]_vars

\* setEdge has recorded edges for a graph that also holds a node with its
\* input dimension set and a named input, for which it recorded none
C12_Witness ==
  /\ pc = "topologicalSort"
  /\ Edges # {}
  /\ \E i \in 1..Len(adj) :
       /\ NodeLayer(i).input_data_len # 0
       /\ \E j \in 1..Len(adj) : NodeLayer(i).input_layers = <<NodeLayer(j).name>>

\* setEdge has returned without an exception
EdgesSet == pc \in {"topologicalSort", "setNumNetBufferSize", "inPlaceOptimize",
                     "done", "forwarded"}

(***************************************************************************)
(* C13: after setEdge has returned successfully, every input name of every *)
(* node of the graph other than "__data__" is the name of exactly one node *)
(* of the graph, whatever the node's input dimension is.                   *)
(***************************************************************************)
C13_InputsResolve ==
  EdgesSet =>
    \A i \in 1..Len(adj) :
      \A j \in 1..Len(NodeLayer(i).input_layers) :
        ~istrequal(NodeLayer(i).input_layers[j], DATA) =>
          Cardinality(Owners(<<i, j>>)) = 1

(***************************************************************************)
(* C14: forwarding invokes the forwarding of every node of Sorted exactly  *)
(* once, in sorted order; when a node's forwarding raises, no later node's *)
(* is invoked and the exception reaches the caller; on success the result  *)
(* is the output tensors of the last sorted node, in slot order.           *)
(***************************************************************************)
C14_Forwarding ==
  [][pc = "done" =>
      LET raises == call'.raises
          last == Sorted[Len(Sorted)].layer
      IN IF raises = 0
         THEN /\ pc' = "forwarded"
              /\ Len(forwarded') = Len(Sorted)
              /\ \A k \in 1..Len(Sorted) : forwarded'[k] = Sorted[k].layer
              /\ Len(out') = objs[last].num_outputs
              /\ \A k \in 1..Len(out') : out'[k] = <<last, k>>
         ELSE /\ pc' = "failed"
              /\ status' = EX_FORWARD
              /\ Len(forwarded') = raises
              /\ \A k \in 1..raises : forwarded'[k] = Sorted[k].layer]_vars

\* a forward pass that ended at a node before the last one
C14_Witness ==
  /\ pc = "failed"
  /\ status = EX_FORWARD
  /\ Len(Sorted) >= 3
  /\ Len(forwarded) = 2

(***************************************************************************)
(* C15: within one build every node inserted by addLayerNode gets an index *)
(* no node inserted before it has had, the node addLossLayer removed for   *)
(* the cross-entropy fusion included.                                      *)
(***************************************************************************)
C15_FreshIndex ==
  /\ \A i, j \in 1..Len(adj) : i # j => adj[i][1].index # adj[j][1].index
  /\ \A r \in 1..Len(removed) :
       \A i \in 1..Len(adj) : adj[i][1].index # removed[r].index

(***************************************************************************)
(* C16: for every layer X of the flat list that is not an activation layer *)
(* and asks for a known activation other than none, whatever the number of *)
(* X's outputs, realization inserts exactly one activation node A right    *)
(* after X: A's single input is X, A's outputs are X's former outputs in   *)
(* order, X's outputs become [A], and the consumers that named X name A.   *)
(***************************************************************************)
C16_ActivationRealized ==
  [][(/\ pc = "realizeActivation"
      /\ objs[layers[li]].type # "activation"
      /\ objs[layers[li]].activation_type \notin {"ACT_NONE", "ACT_UNKNOWN"})
     => LET cur == layers[li]
            id == Len(objs) + 1
            outs == objs[cur].output_layers
        IN /\ pc' = "realizeMultiOutput"
           /\ Len(objs') = Len(objs) + 1
           /\ num_node' = num_node + 1
           /\ adj[num_node][1].layer = cur
           /\ adj' = Append(adj, <<[layer |-> id, index |-> num_node]>>)
           /\ objs'[id].type = "activation"
           /\ objs'[id].activation_type = objs[cur].activation_type
           /\ objs'[id].input_layers = <<objs[cur].name>>
           /\ objs'[id].output_layers = outs
           /\ objs'[id].num_outputs = Len(outs)
           /\ objs'[cur].output_layers = <<objs'[id].name>>
           /\ \A k \in 1..Len(outs) :
                outs[k] # EXIT =>
                  \E x \in 1..Len(layers) :
                    /\ istrequal(objs'[layers[x]].name, outs[k])
                    /\ \E m \in 1..Len(objs'[layers[x]].input_layers) :
                         objs'[layers[x]].input_layers[m] = objs'[id].name
                    /\ \A m \in 1..Len(objs'[layers[x]].input_layers) :
                         ~istrequal(objs'[layers[x]].input_layers[m], objs[cur].name)]_vars

\* the activation adapters realizeActivationType inserted for the layer cur
ActivationAdapters(cur) ==
  {i \in 1..Len(adj) :
     /\ adj[i][1].layer > Len(layers)
     /\ NodeLayer(i).type = "activation"
     /\ NodeLayer(i).input_layers = <<objs[cur].name>>
     /\ objs[cur].output_layers = <<NodeLayer(i).name>>}

(***************************************************************************)
(* C17: when a layer of the flat list asks for a trailing flatten, exactly *)
(* one flatten adapter is appended to the graph, after the activation      *)
(* adapter when one was inserted for the layer, and its single input is    *)
(* the activation adapter when there is one and the layer itself otherwise.*)
(***************************************************************************)
C17_FlattenAfterActivation ==
  [][(/\ pc = "realizeFlatten"
      /\ objs[layers[li]].flatten
      /\ objs[layers[li]].type # "flatten")
     => LET cur == layers[li]
            id == Len(objs) + 1
            acts == ActivationAdapters(cur)
            source == IF acts = {} THEN objs[cur].name
                      ELSE NodeLayer(CHOOSE i \in acts : TRUE).name
        IN /\ pc' # "failed"
           /\ Len(objs') = Len(objs) + 1
           /\ adj' = Append(adj, <<[layer |-> id, index |-> num_node]>>)
           /\ objs'[id].type = "flatten"
           /\ objs'[id].input_layers = <<source>>]_vars

\* the number of nodes at the front of Sorted that are not trainable
LeadingNonTrainable ==
  Cardinality({k \in 1..Len(Sorted) :
                 \A m \in 1..k : ~objs[Sorted[m].layer].trainable})

(***************************************************************************)
(* C18: after topologicalSort, skip_non_trainable_layers is the number of  *)
(* consecutive non-trainable nodes at the front of Sorted, also when no    *)
(* node is trainable, where it is the number of nodes.                     *)
(***************************************************************************)
C18_SkipCount ==
  pc \in {"setNumNetBufferSize", "inPlaceOptimize", "done", "forwarded"} =>
    skip_non_trainable_layers = LeadingNonTrainable

\* the k-th sorted node is of an in-place kind and its activation is not
\* softmax: inPlaceOptimize considers it
Considered(k) ==
  /\ objs[Sorted[k].layer].type \in {"activation", "batch_normalization"}
  /\ objs[Sorted[k].layer].activation_type # "ACT_SOFTMAX"

\* the nodes (1-based) the single input of the k-th sorted node names
Producers(k) ==
  {i \in 1..Len(adj) :
     istrequal(NodeLayer(i).name, objs[Sorted[k].layer].input_layers[1])}

\* its sole input is the external input: "__data__" or an input layer
FedByExternalInput(k) ==
  /\ Len(objs[Sorted[k].layer].input_layers) = 1
  /\ \/ istrequal(objs[Sorted[k].layer].input_layers[1], DATA)
     \/ \E i \in Producers(k) : NodeLayer(i).type = "input"

\* its sole input is a node of the graph that lists it as an output
FedByNode(k) ==
  /\ Len(objs[Sorted[k].layer].input_layers) = 1
  /\ \E i \in Producers(k) :
       \E m \in 1..Len(NodeLayer(i).output_layers) :
         NodeLayer(i).output_layers[m] = objs[Sorted[k].layer].name

(***************************************************************************)
(* C19: in inPlaceOptimize a considered node whose sole input comes from   *)
(* the external input, be it an input layer or "__data__" itself, is       *)
(* skipped: nothing is aliased for it, untrackLayerInOuts is not called    *)
(* for it and no error is raised.  (Stated for graphs whose other          *)
(* considered nodes are fed by a node of the graph, so that none of them   *)
(* raises an error.)                                                       *)
(***************************************************************************)
C19_ExternalInputSkipped ==
  [][(/\ pc = "inPlaceOptimize"
      /\ \A k \in 1..Len(Sorted) :
           Considered(k) => (FedByExternalInput(k) \/ FedByNode(k)))
     => /\ pc' = "done"
        /\ \A k \in 1..Len(Sorted) :
             (Considered(k) /\ FedByExternalInput(k)) =>
               /\ \A r \in in_place' : r.node # Sorted[k].layer
               /\ \A u \in 1..Len(untracked') :
                    ~istrequal(untracked'[u], objs[Sorted[k].layer].input_layers[1])]_vars

\* the node inPlaceOptimize takes as the predecessor of the k-th sorted node
Predecessor(k) ==
  getLayerNodeByName(objs, adj, objs[Sorted[k].layer].input_layers[1])

(***************************************************************************)
(* C20: once inPlaceOptimize has run, a considered node whose predecessor  *)
(* is a node of the graph other than an input layer is left un-aliased     *)
(* because of that predecessor only if the predecessor was itself aliased: *)
(* a predecessor that was not aliased, whatever its kind, leaves its       *)
(* successor aliased.                                                      *)
(***************************************************************************)
C20_UnaliasedPredecessor ==
  pc \in {"done", "forwarded"} =>
    \A k \in 1..Len(Sorted) :
      (/\ Considered(k)
       /\ Len(objs[Sorted[k].layer].input_layers) = 1
       /\ Predecessor(k) # NoNode
       /\ objs[Predecessor(k).layer].type # "input"
       /\ ~Aliased(Predecessor(k).layer))
      => Aliased(Sorted[k].layer)

\* the aliasings of the pass whose node is of the given type
Shared(type) == {r \in in_place' : objs[r.node].type = type}

(***************************************************************************)
(* C21: when inPlaceOptimize aliases a batch-normalization node L to its   *)
(* predecessor P, L being named at position loc of P's outputs, then       *)
(* afterwards P's output slot loc and L's input slot 0 hold the very       *)
(* buffer L's output slot 0 holds, and no other slot is changed: a slot    *)
(* that differs after the pass is one of these two slots of some aliased   *)
(* batch-normalization node.                                               *)
(***************************************************************************)
C21_BatchNormAlias ==
  [][(pc = "inPlaceOptimize" /\ pc' = "done") =>
       /\ \A r \in Shared("batch_normalization") :
            /\ net_hidden'[r.node][1] = net_hidden[r.node][1]
            /\ net_hidden'[r.prev][r.loc + 1] = net_hidden'[r.node][1]
            /\ net_input'[r.node][1] = net_hidden'[r.node][1]
       /\ \A id \in 1..Len(objs) :
            /\ Len(net_hidden'[id]) = Len(net_hidden[id])
            /\ Len(net_input'[id]) = Len(net_input[id])
            /\ \A m \in 1..Len(net_hidden[id]) :
                 net_hidden'[id][m] # net_hidden[id][m] =>
                   \E r \in Shared("batch_normalization") :
                     r.prev = id /\ r.loc + 1 = m
            /\ \A j \in 1..Len(net_input[id]) :
                 net_input'[id][j] # net_input[id][j] =>
                   \E r \in Shared("batch_normalization") : r.node = id /\ j = 1
       /\ Shared("activation") = {} => var_grads' = var_grads]_vars

\* a batch-normalization node was aliased, and its predecessor's output
\* slot holds another buffer than before
C21_Witness ==
  /\ pc = "done"
  /\ \E r \in in_place :
       /\ objs[r.node].type = "batch_normalization"
       /\ net_hidden[r.prev][r.loc + 1] = <<r.node, 1>>
       /\ net_input[r.node][1] = <<r.node, 1>>
       /\ <<r.prev, r.loc + 1>> # <<r.node, 1>>

\* the Var_Grad behind output slot m (1-based) of layer id after the pass
Hidden(id, m) == var_grads'[net_hidden'[id][m]]

(***************************************************************************)
(* C22 as stated: when inPlaceOptimize aliases an activation node L to its *)
(* predecessor P, L being named at position loc of P's outputs, then       *)
(* afterwards the variable of P's output slot loc is the variable of L's   *)
(* output slot 0, and the gradient of P's output slot loc is the gradient  *)
(* of L's output slot 0.                                                   *)
(***************************************************************************)
C22_ActivationAlias_Stated ==
  [][(pc = "inPlaceOptimize" /\ pc' = "done") =>
       \A r \in Shared("activation") :
         /\ Hidden(r.prev, r.loc + 1).var = Hidden(r.node, 1).var
         /\ Hidden(r.prev, r.loc + 1).grad = Hidden(r.node, 1).grad]_vars

(***************************************************************************)
(* C22 amended: afterwards the variable and the gradient of P's output     *)
(* slot loc are both the variable of L's output slot 0, which is the       *)
(* variable L's output slot held before the pass; L's own gradient is      *)
(* left as it was.                                                         *)
(***************************************************************************)
C22_ActivationAlias ==
  [][(pc = "inPlaceOptimize" /\ pc' = "done") =>
       \A r \in Shared("activation") :
         /\ Hidden(r.node, 1) = var_grads[net_hidden[r.node][1]]
         /\ Hidden(r.prev, r.loc + 1).var = Hidden(r.node, 1).var
         /\ Hidden(r.prev, r.loc + 1).grad = Hidden(r.node, 1).var]_vars

\* an activation node was aliased: its predecessor's output slot holds the
\* activation's output variable twice, and the activation's gradient is
\* another tensor
C22_Witness ==
  /\ pc = "done"
  /\ \E r \in in_place :
       /\ objs[r.node].type = "activation"
       /\ r.prev # r.node
       /\ var_grads[net_hidden[r.prev][r.loc + 1]] =
            [var |-> <<"var", r.node, 1>>, grad |-> <<"var", r.node, 1>>]
       /\ var_grads[net_hidden[r.node][1]].grad = <<"grad", r.node, 1>>

(***************************************************************************)
(* C23: after inPlaceOptimize at most one successor is aliased to any      *)
(* node's output storage, untrackLayerInOuts was called once for every     *)
(* aliasing applied and for nothing else, and no predecessor name was      *)
(* passed to it twice, also when the predecessor is a duplicator feeding   *)
(* several considered nodes.                                               *)
(***************************************************************************)
C23_AliasedOnce ==
  pc \in {"done", "forwarded"} =>
    /\ \A r1, r2 \in in_place : r1.prev = r2.prev => r1 = r2
    /\ Len(untracked) = Cardinality(in_place)
    /\ \A u \in 1..Len(untracked) :
         \E r \in in_place : objs[r.prev].name = untracked[u]
    /\ \A u, v \in 1..Len(untracked) : untracked[u] = untracked[v] => u = v

\* name occurs in the list of names
Occurs(name, names) == \E k \in 1..Len(names) : names[k] = name

(***************************************************************************)
(* C24: after a successful setGraphNode producer and consumer references   *)
(* agree for all nodes of the graph, inserted adapters included: for any   *)
(* two nodes A and B, B's name occurs in A's output names exactly if A's   *)
(* name occurs in B's input names; and every node but the final one has    *)
(* an output name.                                                         *)
(***************************************************************************)
C24_ReferencesAgree ==
  (pc = "setEdge" /\ status = ML_ERROR_NONE) =>
    /\ \A i, j \in 1..Len(adj) :
         Occurs(NodeLayer(j).name, NodeLayer(i).output_layers)
           <=> Occurs(NodeLayer(i).name, NodeLayer(j).input_layers)
    /\ \A i \in 1..(Len(adj) - 1) : Len(NodeLayer(i).output_layers) >= 1

(***************************************************************************)
(* C25: the first topologicalSort on a built graph terminates whatever     *)
(* the adjacency relation is, self-loops and cycles included, and Sorted   *)
(* then holds every node of the graph exactly once.  (Every call of        *)
(* topologicalSortUtil pushes one node, so the calls made are as many as   *)
(* Sorted is long: num_node of them.)                                      *)
(***************************************************************************)
C25_SortedHoldsEveryNodeOnce ==
  [][pc = "topologicalSort" =>
       /\ pc' = "setNumNetBufferSize"
       /\ Len(Sorted') = num_node
       /\ \A i \in 1..Len(adj) :
            Cardinality({k \in 1..Len(Sorted') : Sorted'[k] = adj[i][1]}) = 1]_vars

\* a graph with a self-loop or a cycle has been sorted
C25_Witness ==
  /\ pc = "setNumNetBufferSize"
  /\ ~Acyclic(Edges)
  /\ Len(Sorted) = num_node
  /\ num_node >= 2

====
